---------------------------- MODULE Spec2Model ----------------------------
(***************************************************************************)
(* Model of the type-introspection catalog of ForSyDe-SystemC              *)
(* (src/src/forsyde/types.hpp): get_type_name, TypeContainer and           *)
(* IntrospectiveType.  The XML document is a tree of element nodes; an     *)
(* attribute value is a C string, i.e. a pointer to a character object,    *)
(* so it is modelled as the pair (characters, object identity).            *)
(***************************************************************************)
EXTENDS Integers, Sequences, FiniteSets

VARIABLES
    pooled,      \* build: do equal string literals share one object?
    doc,         \* TypeContainer::xml_doc, as the tree under root_node
    fs,          \* the file system: path -> lines of the file
    report,      \* what SC_REPORT_ERROR was last given
    log,         \* the calls completed so far, in order (history)
    before,      \* document and files when the last completed call began
    pc,          \* per registrant: where in traverse<T>() it is
    arg,         \* per registrant: the T of the call in progress
    tnode,       \* per registrant: type_node (a path under root)
    stk,         \* per registrant: the statements still to run
    serialized   \* does the caller run registrations one at a time?

vars == <<pooled, doc, fs, report, log, before, pc, arg, tnode, stk, serialized>>

(***************************************************************************)
(* Bounds of the model.                                                    *)
(***************************************************************************)
MaxOps == 3          \* calls in one run of the sequential specification
MaxStepCalls == 2    \* calls begun in one run of the statement-level one

(***************************************************************************)
(* Type expressions.  A type expression is what a template argument T can  *)
(* be: a primitive with a DEFINE_TYPE entry, Vector<T>, Tuple<T...>, or    *)
(* any other (user-defined) type.                                          *)
(***************************************************************************)
Prim(n) == [kind |-> "prim", name |-> n, args |-> <<>>]
Other(n) == [kind |-> "other", name |-> n, args |-> <<>>]
Vector(T) == [kind |-> "vector", name |-> "", args |-> <<T>>]
Tuple(Ts) == [kind |-> "tuple", name |-> "", args |-> Ts]

\* The DEFINE_TYPE(X) lines: X, and the literal #X it registers.
PrimNames ==
    {"char", "short int", "unsigned short int", "int", "unsigned int",
     "long int", "unsigned long int", "long long int",
     "unsigned long long int", "bool", "float", "double", "long double",
     "wchar_t"}

Primitives == {Prim(n) : n \in PrimNames}

\* User types given a name with DEFINE_TYPE_NAME(X,N): X -> N.  The macro
\* takes any N, so two types may be given equal names.
ExplicitNames == [FrameHeader |-> "header", FrameSideInfo |-> "header"]

\* User types: two named explicitly, one left to the RTTI fallback.
UserNames == {"FrameHeader", "FrameSideInfo", "ChanuleSamples"}

UserTypes == {Other(n) : n \in UserNames}

\* The composite type expressions the callers of the model register.
Composites ==
    {Tuple(<<Prim("int")>>),
     Tuple(<<Prim("int"), Prim("float"), Prim("bool")>>),
     Tuple(<<Prim("bool"), Prim("float"), Prim("int")>>),
     Vector(Tuple(<<Prim("char"), Prim("double")>>)),
     Tuple(<<Vector(Other("ChanuleSamples")), Vector(Prim("float"))>>)}

TypeExprs == Primitives \cup UserTypes \cup Composites

\* sizeof(T) of the primary template's T (LP64 data model).
SizeOfLeaf(T) ==
    CASE T.name \in {"char", "bool"} -> 1
      [] T.name \in {"short int", "unsigned short int"} -> 2
      [] T.name \in {"int", "unsigned int", "float", "wchar_t"} -> 4
      [] T.name \in {"long int", "unsigned long int", "long long int",
                     "unsigned long long int", "double"} -> 8
      [] T.name = "long double" -> 16
      [] T.name = "FrameHeader" -> 12
      [] T.name = "FrameSideInfo" -> 40
      [] OTHER -> 4608

\* sizeof(Vector<T>): the handle of std::vector, three pointers.
SizeOfVector == 24

(***************************************************************************)
(* get_type_name<T>().                                                     *)
(***************************************************************************)
\* The code letter of a builtin type in typeid(T).name().
BuiltinCode(n) ==
    CASE n = "char" -> "c" [] n = "short int" -> "s"
      [] n = "unsigned short int" -> "t" [] n = "int" -> "i"
      [] n = "unsigned int" -> "j" [] n = "long int" -> "l"
      [] n = "unsigned long int" -> "m" [] n = "long long int" -> "x"
      [] n = "unsigned long long int" -> "y" [] n = "bool" -> "b"
      [] n = "float" -> "f" [] n = "double" -> "d"
      [] n = "long double" -> "e" [] OTHER -> "w"

DigitChar(d) == SubSeq("0123456789", d + 1, d + 1)

\* std::to_string(size): the decimal digits of size.
RECURSIVE to_string(_)
to_string(n) ==
    IF n < 10 THEN DigitChar(n)
    ELSE to_string(n \div 10) \o DigitChar(n % 10)

\* typeid(T).name(): an implementation-derived encoding of T's structure
\* (here the Itanium one, without its substitution shorthand).
RECURSIVE TypeidName(_)
TypeidArgs(Ts) ==
    IF Len(Ts) = 0 THEN ""
    ELSE LET RECURSIVE Cat(_)
             Cat(i) == IF i > Len(Ts) THEN ""
                       ELSE TypeidName(Ts[i]) \o Cat(i + 1)
         IN  Cat(1)

TypeidName(T) ==
    CASE T.kind = "prim" -> BuiltinCode(T.name)
      [] T.kind = "other" -> to_string(Len(T.name)) \o T.name
      [] T.kind = "vector" ->
            "St6vectorI" \o TypeidName(T.args[1]) \o "SaI"
                \o TypeidName(T.args[1]) \o "EE"
      [] OTHER -> "St5tupleIJ" \o TypeidArgs(T.args) \o "EE"

\* A C string: the characters and the object they live in.  Two pointers
\* compare equal exactly when both fields agree.
CString(s, o) == [str |-> s, obj |-> o]

\* The object a literal lives in.  Each DEFINE_TYPE_NAME expansion has a
\* literal of its own; whether equal literals are one object is up to the
\* build (pooled).
LiteralObject(T) ==
    IF pooled THEN 0
    ELSE CASE T.name = "FrameHeader" -> 1
           [] T.name = "FrameSideInfo" -> 2
           [] OTHER -> 0

get_type_name(T) ==
    IF T.kind = "prim" THEN CString(T.name, 0)
    ELSE IF T.kind = "other" /\ T.name \in DOMAIN ExplicitNames
    THEN CString(ExplicitNames[T.name], LiteralObject(T))
    ELSE CString(TypeidName(T), 0)

\* Mutant of size_to_char: the buffer keeps only the last digit.
size_to_char_lastDigit(size) == CString(to_string(size % 10), -1)

\* size_to_char(size): a fresh buffer holding the digits.
size_to_char(size) == CString(to_string(size), -1)

(***************************************************************************)
(* The XML document (rapidxml): element nodes with a tag, attributes in    *)
(* order and child elements in order.  A node is named by its path from    *)
(* the root: nodes are only ever appended, so a path stays valid.          *)
(***************************************************************************)
Element(tag) == [tag |-> tag, attrs |-> <<>>, children |-> <<>>]

RECURSIVE NodeAt(_, _)
NodeAt(n, path) ==
    IF path = <<>> THEN n ELSE NodeAt(n.children[Head(path)], Tail(path))

\* xml_node::append_node on the node at path.
RECURSIVE append_node(_, _, _)
append_node(n, path, child) ==
    IF path = <<>> THEN [n EXCEPT !.children = Append(@, child)]
    ELSE [n EXCEPT !.children[Head(path)] =
                       append_node(@, Tail(path), child)]

\* xml_node::append_attribute on the node at path.
RECURSIVE append_attribute(_, _, _)
append_attribute(n, path, attr) ==
    IF path = <<>> THEN [n EXCEPT !.attrs = Append(@, attr)]
    ELSE [n EXCEPT !.children[Head(path)] =
                       append_attribute(@, Tail(path), attr)]

\* xml_node::first_attribute(name): the value of the first attribute of
\* that name, or NoAttr (a null pointer) when the node has none.
NoAttr == CString("", -2)

first_attribute(node, name) ==
    LET at == {i \in 1..Len(node.attrs) : node.attrs[i].name = name}
    IN  IF at = {} THEN NoAttr
        ELSE node.attrs[CHOOSE i \in at : \A j \in at : i <= j].value

\* TypeContainer::TypeContainer(): a document holding the empty root.
const_root_type == "forsyde_types"
NewDocument == Element(const_root_type)

\* TypeContainer::add_node(parent, name): the document afterwards; the new
\* node is the last child of parent.
add_node(d, parent, name) == append_node(d, parent, Element(name))

NewNodePath(d, parent) == Append(parent, Len(NodeAt(d, parent).children) + 1)

\* TypeContainer::add_attribute(node, attr_name, attr_val).
add_attribute(d, node, attr_name, attr_val) ==
    append_attribute(d, node, [name |-> attr_name, value |-> attr_val])

(***************************************************************************)
(* IntrospectiveType::add_type_node<T>::get and traverse_tuple<N,Tup>::get.*)
(* A call is run statement by statement: a frame is a call or statement    *)
(* still to run, and the frames of a registrant form its stack.            *)
(***************************************************************************)
NoType == Prim("")
NoAttribute == [name |-> "", value |-> NoAttr]

TypeFrame(T, parent) ==
    [op |-> "add_type_node", T |-> T, N |-> 0, at |-> parent,
     attr |-> NoAttribute]

TupleFrame(N, Tup, parent) ==
    [op |-> "traverse_tuple", T |-> Tup, N |-> N, at |-> parent,
     attr |-> NoAttribute]

AttrFrame(node, attr_name, attr_val) ==
    [op |-> "add_attribute", T |-> NoType, N |-> 0, at |-> node,
     attr |-> [name |-> attr_name, value |-> attr_val]]

\* Mutant of add_type_node_primary: a type without a DEFINE_TYPE entry is
\* rejected and nothing is built for it.
add_type_node_primary_rejecting(d, T, parent) ==
    IF T.kind = "other" THEN [doc |-> d, todo |-> <<>>]
    ELSE [doc |-> add_node(d, parent, "primitive"),
          todo |-> <<AttrFrame(NewNodePath(d, parent), "name",
                               get_type_name(T)),
                     AttrFrame(NewNodePath(d, parent), "size",
                               size_to_char(SizeOfLeaf(T)))>>]

\* add_type_node<T>::get(parent), primary template: the node it adds and
\* the statements that follow.
add_type_node_primary(d, T, parent) ==
    LET primitive_node == NewNodePath(d, parent)
    IN  [doc |-> add_node(d, parent, "primitive"),
         todo |-> <<AttrFrame(primitive_node, "name", get_type_name(T)),
                    AttrFrame(primitive_node, "size",
                              size_to_char(SizeOfLeaf(T)))>>]

\* add_type_node<Vector<T>>::get(parent).
add_type_node_vector(d, T, parent) ==
    LET vector_node == NewNodePath(d, parent)
    IN  [doc |-> add_node(d, parent, "vector"),
         todo |-> <<TypeFrame(T.args[1], vector_node),
                    AttrFrame(vector_node, "size",
                              size_to_char(SizeOfVector))>>]

\* Mutant of add_type_node_tuple: the tuple node is given a size attribute.
add_type_node_tuple_sized(d, T, parent) ==
    [doc |-> add_node(d, parent, "tuple"),
     todo |-> <<TupleFrame(Len(T.args), T, NewNodePath(d, parent)),
                AttrFrame(NewNodePath(d, parent), "size",
                          size_to_char(Len(T.args)))>>]

\* add_type_node<Tuple<T...>>::get(parent).
add_type_node_tuple(d, T, parent) ==
    LET tuple_node == NewNodePath(d, parent)
    IN  [doc |-> add_node(d, parent, "tuple"),
         todo |-> <<TupleFrame(Len(T.args), T, tuple_node)>>]

\* Template dispatch of add_type_node<T>.
add_type_node(d, T, parent) ==
    CASE T.kind = "vector" -> add_type_node_vector(d, T, parent)
      [] T.kind = "tuple" -> add_type_node_tuple(d, T, parent)
      [] OTHER -> add_type_node_primary(d, T, parent)

\* Mutant of traverse_tuple: the tail is traversed before the head.
traverse_tuple_tailFirst(N, Tup, parent) ==
    IF N = 1 THEN <<TypeFrame(Head(Tup.args), parent)>>
    ELSE <<TupleFrame(N - 1, Tuple(Tail(Tup.args)), parent),
           TypeFrame(Head(Tup.args), parent)>>

\* traverse_tuple<N, Tuple<Head, Tail...>>::get(parent): the calls it makes.
traverse_tuple(N, Tup, parent) ==
    IF N = 1 THEN <<TypeFrame(Head(Tup.args), parent)>>
    ELSE <<TypeFrame(Head(Tup.args), parent),
           TupleFrame(N - 1, Tuple(Tail(Tup.args)), parent)>>

\* One statement: the top frame of the stack is run.
Step(d, stack) ==
    LET f == Head(stack)
        rest == Tail(stack)
    IN  CASE f.op = "add_attribute" ->
               [doc |-> add_attribute(d, f.at, f.attr.name, f.attr.value),
                stk |-> rest]
          [] f.op = "traverse_tuple" ->
               [doc |-> d, stk |-> traverse_tuple(f.N, f.T, f.at) \o rest]
          [] OTHER ->
               LET r == add_type_node(d, f.T, f.at)
               IN  [doc |-> r.doc, stk |-> r.todo \o rest]

\* The statements of a stack run to the end.
RECURSIVE Run(_, _)
Run(d, stack) ==
    IF stack = <<>> THEN d
    ELSE LET r == Step(d, stack) IN Run(r.doc, r.stk)

(***************************************************************************)
(* IntrospectiveType::traverse<T>().                                       *)
(***************************************************************************)
\* Mutant of ScanFinds: only the last child is compared.
ScanFinds_lastOnly(d, type_name) ==
    /\ Len(d.children) > 0
    /\ first_attribute(d.children[Len(d.children)], "name") = type_name

\* Mutant of ScanFinds: the loop starts at the second child.
ScanFinds_skipsFirst(d, type_name) ==
    \E i \in 2..Len(d.children) :
        first_attribute(d.children[i], "name") = type_name

\* The loop over root's children: is there one whose name attribute is
\* the pointer type_name?
ScanFinds(d, type_name) ==
    \E i \in 1..Len(d.children) :
        first_attribute(d.children[i], "name") = type_name

\* The whole call, run alone: the document afterwards and the result.
traverse(d, T) ==
    LET type_name == get_type_name(T)
        type_node == NewNodePath(d, <<>>)
    IN  IF ScanFinds(d, type_name) THEN [doc |-> d, ret |-> type_name]
        ELSE [doc |-> Run(add_attribute(add_node(d, <<>>, "data_type"),
                                        type_node, "name", type_name),
                          <<TypeFrame(T, type_node)>>),
              ret |-> type_name]

(***************************************************************************)
(* TypeContainer::printXML(fileName).                                      *)
(***************************************************************************)
Paths == {"types.xml", "/no/such/dir/types.xml"}

\* Can std::ofstream open the path for writing?
Openable(fileName) == fileName = "types.xml"

NoReport == [msg_type |-> "", msg |-> ""]

\* operator<< of a rapidxml node: one line per tag, children indented.
AttrText(a) == " " \o a.name \o "=\"" \o a.value.str \o "\""

RECURSIVE AttrsText(_)
AttrsText(as) ==
    IF as = <<>> THEN "" ELSE AttrText(Head(as)) \o AttrsText(Tail(as))

RECURSIVE PrintNode(_, _)
PrintNodes(ns, indent) ==
    LET RECURSIVE Each(_)
        Each(i) == IF i > Len(ns) THEN <<>>
                   ELSE PrintNode(ns[i], indent) \o Each(i + 1)
    IN  Each(1)

PrintNode(n, indent) ==
    IF n.children = <<>>
    THEN <<indent \o "<" \o n.tag \o AttrsText(n.attrs) \o "/>">>
    ELSE <<indent \o "<" \o n.tag \o AttrsText(n.attrs) \o ">">>
             \o PrintNodes(n.children, indent \o "\t")
             \o <<indent \o "</" \o n.tag \o ">">>

Preamble ==
    <<"<?xml version=\"1.0\" ?>",
      "<!-- Automatically generated by ForSyDe -->">>

\* Mutant of printXML: a path that cannot be opened is passed over in
\* silence.
printXML_silent(d, files, fileName) ==
    IF Openable(fileName)
    THEN [doc |-> d,
          fs |-> [files EXCEPT ![fileName] = Preamble \o PrintNode(d, "")],
          report |-> NoReport]
    ELSE [doc |-> d, fs |-> files, report |-> NoReport]

\* Mutant of printXML: the file is opened for appending.
printXML_append(d, files, fileName) ==
    IF Openable(fileName)
    THEN [doc |-> d,
          fs |-> [files EXCEPT ![fileName] =
                      @ \o Preamble \o PrintNode(d, "")],
          report |-> NoReport]
    ELSE [doc |-> d, fs |-> files,
          report |-> [msg_type |-> fileName, msg |-> "not opened"]]

\* The call: the file system and the error report afterwards.  A stream
\* that is not open drops what is written to it.
printXML(d, files, fileName) ==
    IF Openable(fileName)
    THEN [doc |-> d,
          fs |-> [files EXCEPT ![fileName] = Preamble \o PrintNode(d, "")],
          report |-> NoReport]
    ELSE [doc |-> d,
          fs |-> files,
          report |-> [msg_type |-> fileName,
                      msg |-> "file could not be opened to write the introspection output. Does the path exists?"]]

(***************************************************************************)
(* The sequential specification: one caller, each call an atomic step.     *)
(***************************************************************************)
Registrants == {1, 2}

Idle == [t \in Registrants |-> "idle"]

LogEntry(op, T, fileName, ret, err) ==
    [op |-> op, T |-> T, file |-> fileName, ret |-> ret, err |-> err]

Init ==
    /\ pooled \in BOOLEAN
    /\ doc = NewDocument
    /\ fs = [p \in Paths |-> <<>>]
    /\ report = NoReport
    /\ log = <<>>
    /\ before = [doc |-> NewDocument, fs |-> [p \in Paths |-> <<>>]]
    /\ pc = Idle
    /\ arg = [t \in Registrants |-> NoType]
    /\ tnode = [t \in Registrants |-> <<>>]
    /\ stk = [t \in Registrants |-> <<>>]
    /\ serialized = TRUE

\* IntrospectiveType::traverse<T>() called and run to its return.
Traverse(T) ==
    /\ Len(log) < MaxOps
    /\ LET r == traverse(doc, T)
       IN  /\ doc' = r.doc
           /\ log' = Append(log, LogEntry("traverse", T, "", r.ret, ""))
    /\ before' = [doc |-> doc, fs |-> fs]
    /\ UNCHANGED <<pooled, fs, report, pc, arg, tnode, stk, serialized>>

\* TypeContainer::get().printXML(fileName) called and run to its end; the
\* report of SC_REPORT_ERROR is thrown or not, as the handler is set up.
PrintXML(fileName) ==
    /\ Len(log) < MaxOps
    /\ LET r == printXML(doc, fs, fileName)
       IN  /\ doc' = r.doc
           /\ fs' = r.fs
           /\ report' = IF r.report = NoReport THEN report ELSE r.report
           /\ \E thrown \in IF r.report = NoReport THEN {FALSE} ELSE BOOLEAN :
                  log' = Append(log,
                      LogEntry("printXML", NoType, fileName, NoAttr,
                               IF r.report = NoReport THEN ""
                               ELSE IF thrown THEN "thrown" ELSE "reported"))
    /\ before' = [doc |-> doc, fs |-> fs]
    /\ UNCHANGED <<pooled, pc, arg, tnode, stk, serialized>>

Next ==
    \/ \E T \in TypeExprs : Traverse(T)
    \/ \E fileName \in Paths : PrintXML(fileName)

Spec == Init /\ [][Next]_vars

(***************************************************************************)
(* The statement-level specification: two registrants each run             *)
(* traverse<T>() one statement at a time.  The code takes no lock; whether *)
(* the caller lets a registration begin while another is in progress is    *)
(* the caller's choice (serialized).                                       *)
(***************************************************************************)
StepTypes ==
    {Prim("int"), Other("FrameHeader"), Other("FrameSideInfo"),
     Vector(Tuple(<<Prim("char"), Prim("double")>>))}

InProgress(t) == pc[t] \in {"scan", "add_node", "add_name", "build"}

Crashed == \E t \in Registrants : pc[t] = "crashed"

CallsBegun == Len(log) + Cardinality({t \in Registrants : InProgress(t)})

InitSteps ==
    /\ pooled \in BOOLEAN
    /\ doc = NewDocument
    /\ fs = [p \in Paths |-> <<>>]
    /\ report = NoReport
    /\ log = <<>>
    /\ before = [doc |-> NewDocument, fs |-> [p \in Paths |-> <<>>]]
    /\ pc = Idle
    /\ arg = [t \in Registrants |-> NoType]
    /\ tnode = [t \in Registrants |-> <<>>]
    /\ stk = [t \in Registrants |-> <<>>]
    /\ serialized \in BOOLEAN

\* traverse<T>() is entered: root and type_name are taken.
Begin(t, T) ==
    /\ ~Crashed
    /\ pc[t] = "idle"
    /\ CallsBegun < MaxStepCalls
    /\ serialized => \A u \in Registrants : ~InProgress(u)
    /\ pc' = [pc EXCEPT ![t] = "scan"]
    /\ arg' = [arg EXCEPT ![t] = T]
    /\ UNCHANGED <<pooled, doc, fs, report, log, before, tnode, stk,
                   serialized>>

\* Does the loop meet a child without a name attribute before it meets a
\* match?  It then calls value() through a null pointer.
ScanMeetsNull(d, type_name) ==
    \E i \in 1..Len(d.children) :
        /\ first_attribute(d.children[i], "name") = NoAttr
        /\ \A j \in 1..(i - 1) :
               first_attribute(d.children[j], "name") # type_name

\* The for loop over root's children finds the name and returns it.  (A
\* read through a null pointer that goes through yields no match.)
ScanFound(t) ==
    /\ ~Crashed
    /\ pc[t] = "scan"
    /\ ScanFinds(doc, get_type_name(arg[t]))
    /\ pc' = [pc EXCEPT ![t] = "idle"]
    /\ log' = Append(log, LogEntry("traverse", arg[t], "",
                                   get_type_name(arg[t]), ""))
    /\ UNCHANGED <<pooled, doc, fs, report, before, arg, tnode, stk,
                   serialized>>

\* The for loop runs to its end without a match.
ScanNotFound(t) ==
    /\ ~Crashed
    /\ pc[t] = "scan"
    /\ ~ScanFinds(doc, get_type_name(arg[t]))
    /\ pc' = [pc EXCEPT ![t] = "add_node"]
    /\ UNCHANGED <<pooled, doc, fs, report, log, before, arg, tnode, stk,
                   serialized>>

\* The for loop dereferences a null attribute (undefined behaviour) and
\* the process dies.
ScanCrash(t) ==
    /\ ~Crashed
    /\ pc[t] = "scan"
    /\ ScanMeetsNull(doc, get_type_name(arg[t]))
    /\ pc' = [pc EXCEPT ![t] = "crashed"]
    /\ UNCHANGED <<pooled, doc, fs, report, log, before, arg, tnode, stk,
                   serialized>>

\* type_node = add_node(root, const_data_type).
AddTypeNode(t) ==
    /\ ~Crashed
    /\ pc[t] = "add_node"
    /\ doc' = add_node(doc, <<>>, "data_type")
    /\ tnode' = [tnode EXCEPT ![t] = NewNodePath(doc, <<>>)]
    /\ pc' = [pc EXCEPT ![t] = "add_name"]
    /\ UNCHANGED <<pooled, fs, report, log, before, arg, stk, serialized>>

\* Mutant of AddName: the name attribute is never attached.
AddName_missing(t) ==
    /\ ~Crashed
    /\ pc[t] = "add_name"
    /\ stk' = [stk EXCEPT ![t] = <<TypeFrame(arg[t], tnode[t])>>]
    /\ pc' = [pc EXCEPT ![t] = "build"]
    /\ UNCHANGED <<pooled, doc, fs, report, log, before, arg, tnode,
                   serialized>>

\* add_attribute(type_node, const_name, type_name).
AddName(t) ==
    /\ ~Crashed
    /\ pc[t] = "add_name"
    /\ doc' = add_attribute(doc, tnode[t], "name", get_type_name(arg[t]))
    /\ stk' = [stk EXCEPT ![t] = <<TypeFrame(arg[t], tnode[t])>>]
    /\ pc' = [pc EXCEPT ![t] = "build"]
    /\ UNCHANGED <<pooled, fs, report, log, before, arg, tnode, serialized>>

\* One statement of add_type_node<T>::get(type_node) and its callees.
BuildStep(t) ==
    /\ ~Crashed
    /\ pc[t] = "build"
    /\ stk[t] # <<>>
    /\ LET r == Step(doc, stk[t])
       IN  /\ doc' = r.doc
           /\ stk' = [stk EXCEPT ![t] = r.stk]
    /\ UNCHANGED <<pooled, fs, report, log, before, pc, arg, tnode,
                   serialized>>

\* return type_name.
Return(t) ==
    /\ ~Crashed
    /\ pc[t] = "build"
    /\ stk[t] = <<>>
    /\ pc' = [pc EXCEPT ![t] = "idle"]
    /\ log' = Append(log, LogEntry("traverse", arg[t], "",
                                   get_type_name(arg[t]), ""))
    /\ UNCHANGED <<pooled, doc, fs, report, before, arg, tnode, stk,
                   serialized>>

NextSteps ==
    \E t \in Registrants :
        \/ \E T \in StepTypes : Begin(t, T)
        \/ ScanFound(t)
        \/ ScanNotFound(t)
        \/ ScanCrash(t)
        \/ AddTypeNode(t)
        \/ AddName(t)
        \/ BuildStep(t)
        \/ Return(t)

SpecSteps == InitSteps /\ [][NextSteps]_vars

(***************************************************************************)
(* Vocabulary of the properties.                                           *)
(***************************************************************************)
Entries == doc.children

VectorOfCharDouble == Vector(Tuple(<<Prim("char"), Prim("double")>>))

NameOf(e) == first_attribute(e, "name")

Last == log[Len(log)]

LastIs(op) == Len(log) > 0 /\ Last.op = op

Attr(attr_name, s, o) == [name |-> attr_name, value |-> CString(s, o)]

\* The descriptor the design prescribes for T: a primitive leaf with name
\* and size, a vector with size and its element, a tuple with one child
\* per component in declaration order.
RECURSIVE Descriptor(_)
Descriptor(T) ==
    CASE T.kind = "vector" ->
            [tag |-> "vector",
             attrs |-> <<[name |-> "size",
                          value |-> size_to_char(SizeOfVector)]>>,
             children |-> <<Descriptor(T.args[1])>>]
      [] T.kind = "tuple" ->
            [tag |-> "tuple", attrs |-> <<>>,
             children |-> [i \in 1..Len(T.args) |-> Descriptor(T.args[i])]]
      [] OTHER ->
            [tag |-> "primitive",
             attrs |-> <<[name |-> "name", value |-> get_type_name(T)],
                         [name |-> "size",
                          value |-> size_to_char(SizeOfLeaf(T))]>>,
             children |-> <<>>]

\* The first top-level entry whose name attribute is T's name pointer.
EntryFor(T) ==
    Entries[CHOOSE i \in 1..Len(Entries) :
               /\ NameOf(Entries[i]) = get_type_name(T)
               /\ \A j \in 1..(i - 1) :
                      NameOf(Entries[j]) # get_type_name(T)]

\* The document schema, for a descriptor node and all below it.
RECURSIVE ObeysSchema(_)
ObeysSchema(n) ==
    CASE n.tag = "primitive" ->
            /\ first_attribute(n, "name") # NoAttr
            /\ first_attribute(n, "size") # NoAttr
            /\ n.children = <<>>
      [] n.tag = "vector" ->
            /\ first_attribute(n, "size") # NoAttr
            /\ Len(n.children) = 1
            /\ ObeysSchema(n.children[1])
      [] n.tag = "tuple" ->
            /\ first_attribute(n, "size") = NoAttr
            /\ Len(n.children) >= 1
            /\ \A i \in 1..Len(n.children) : ObeysSchema(n.children[i])
      [] OTHER -> FALSE

\* A top-level entry with its name and exactly one descriptor below it.
EntryComplete(e) ==
    /\ e.tag = "data_type"
    /\ NameOf(e) # NoAttr
    /\ Len(e.children) = 1
    /\ ObeysSchema(e.children[1])

(***************************************************************************)
(* C1.  No two top-level entries carry the same name (the same characters),*)
(* whatever type expressions were registered, one call at a time.          *)
(***************************************************************************)
C1_NoTwoEntriesShareAName ==
    \A i, j \in 1..Len(Entries) :
        i < j => NameOf(Entries[i]).str # NameOf(Entries[j]).str

(***************************************************************************)
(* C2.  A call of traverse<T>() that follows an earlier call for the same  *)
(* T returns the same name, canonicalName(T), and leaves the document as   *)
(* it was: one entry of that name, nothing rebuilt.                        *)
(***************************************************************************)
C2_SecondCallChangesNothing ==
    \A k \in 1..(Len(log) - 1) :
        (Last.op = "traverse" /\ log[k].op = "traverse" /\ log[k].T = Last.T)
        => /\ doc = before.doc
           /\ Last.ret = log[k].ret
           /\ Last.ret = get_type_name(Last.T)
           /\ Cardinality({i \in 1..Len(Entries) :
                              NameOf(Entries[i]) = Last.ret}) = 1

\* T, then another type, then T again: two entries, the last call a no-op.
C2_Witness ==
    /\ Len(log) = 3
    /\ \A k \in 1..3 : log[k].op = "traverse"
    /\ log[1].T = log[3].T
    /\ log[1].T = VectorOfCharDouble
    /\ log[2].T = Tuple(<<Prim("int")>>)
    /\ Len(Entries) = 2
    /\ doc = before.doc

(***************************************************************************)
(* C3.  As claimed: registering a type expression that is no primitive of  *)
(* the enumeration, vector or tuple fails with UnsupportedType and leaves  *)
(* the document unchanged.                                                 *)
(***************************************************************************)
C3_UnsupportedTypeRejected ==
    (LastIs("traverse") /\ Last.T.kind = "other")
    => (Last.err = "UnsupportedType" /\ doc = before.doc)

(***************************************************************************)
(* C3, amended.  Registering such a type expression does not fail: it      *)
(* returns get_type_name<T>() and, when no entry carries that name pointer *)
(* yet, appends one data_type entry of that name whose only child is a     *)
(* primitive node with that name and sizeof(T).                            *)
(***************************************************************************)
C3_OtherShapeRegisteredAsPrimitive ==
    (LastIs("traverse") /\ Last.T.kind = "other")
    => /\ Last.err = ""
       /\ Last.ret = get_type_name(Last.T)
       /\ IF ScanFinds(before.doc, Last.ret) THEN doc = before.doc
          ELSE doc = [before.doc EXCEPT !.children = Append(@,
                 [tag |-> "data_type",
                  attrs |-> <<[name |-> "name", value |-> Last.ret]>>,
                  children |-> <<
                    [tag |-> "primitive",
                     attrs |-> <<[name |-> "name", value |-> Last.ret],
                                 [name |-> "size", value |->
                                     size_to_char(SizeOfLeaf(Last.T))]>>,
                     children |-> <<>>]>>])]

\* A user type with only an RTTI name has just been registered.
C3_Witness ==
    /\ LastIs("traverse")
    /\ Last.T = Other("ChanuleSamples")
    /\ Last.ret.str = "14ChanuleSamples"
    /\ Len(Entries) = Len(before.doc.children) + 1
    /\ Entries[Len(Entries)].children[1].tag = "primitive"

(***************************************************************************)
(* C4.  The node built for Tuple<T1..Tn>, n >= 1, is one tuple node with   *)
(* exactly n children, the i-th being the descriptor of Ti.                *)
(***************************************************************************)
RECURSIVE TupleNodesInOrder(_, _)
TupleNodesInOrder(T, n) ==
    CASE T.kind = "tuple" ->
            /\ n.tag = "tuple"
            /\ Len(n.children) = Len(T.args)
            /\ \A i \in 1..Len(T.args) :
                   n.children[i] = Descriptor(T.args[i])
      [] T.kind = "vector" ->
            /\ Len(n.children) = 1
            /\ TupleNodesInOrder(T.args[1], n.children[1])
      [] OTHER -> TRUE

C4_TupleChildrenInDeclarationOrder ==
    \A k \in 1..Len(log) :
        (log[k].op = "traverse" /\ log[k].T \in Composites)
        => /\ Len(EntryFor(log[k].T).children) = 1
           /\ TupleNodesInOrder(log[k].T, EntryFor(log[k].T).children[1])

\* A 1-tuple, a 3-tuple and its reversal are all registered.
C4_Witness ==
    /\ Len(log) = 3
    /\ log[1].T = Tuple(<<Prim("int")>>)
    /\ log[2].T = Tuple(<<Prim("int"), Prim("float"), Prim("bool")>>)
    /\ log[3].T = Tuple(<<Prim("bool"), Prim("float"), Prim("int")>>)
    /\ Len(Entries) = 3
    /\ Len(Entries[1].children[1].children) = 1
    /\ Entries[2].children[1].children[1].attrs[1].value.str = "int"
    /\ Entries[3].children[1].children[1].attrs[1].value.str = "bool"

(***************************************************************************)
(* C5.  Each primitive P of the enumeration has its own literal name, and  *)
(* registering P on a document with no entry of that name appends exactly  *)
(* one data_type entry of that name, holding exactly one primitive child   *)
(* with that name, P's byte width as size, and no children.                *)
(***************************************************************************)
ByteWidthText(n) ==
    CASE n \in {"char", "bool"} -> "1"
      [] n \in {"short int", "unsigned short int"} -> "2"
      [] n \in {"int", "unsigned int", "float", "wchar_t"} -> "4"
      [] n = "long double" -> "16"
      [] OTHER -> "8"

C5_PrimitiveEntry ==
    /\ (LastIs("traverse") /\ Last.T \in Primitives)
       => \A Q \in Primitives \ {Last.T} :
              get_type_name(Q).str # get_type_name(Last.T).str
    /\ (/\ LastIs("traverse") /\ Last.T \in Primitives
        /\ \A i \in 1..Len(before.doc.children) :
               NameOf(before.doc.children[i]).str # Last.T.name)
       => /\ Last.ret.str = Last.T.name
          /\ Cardinality({i \in 1..Len(Entries) :
                 NameOf(Entries[i]).str = Last.T.name}) = 1
          /\ Len(Entries) = Len(before.doc.children) + 1
          /\ Entries[Len(Entries)] =
                 [tag |-> "data_type",
                  attrs |-> <<Attr("name", Last.T.name, 0)>>,
                  children |-> <<
                    [tag |-> "primitive",
                     attrs |-> <<Attr("name", Last.T.name, 0),
                                 Attr("size", ByteWidthText(Last.T.name),
                                      -1)>>,
                     children |-> <<>>]>>]

\* long double, two digits of size, registered after two other primitives.
C5_Witness ==
    /\ Len(log) = 3
    /\ log[1].T = Prim("wchar_t")
    /\ log[2].T = Prim("unsigned short int")
    /\ log[3].T = Prim("long double")
    /\ Len(Entries) = 3
    /\ first_attribute(Entries[3].children[1], "size").str = "16"

(***************************************************************************)
(* C6.  printXML on a path that cannot be opened reports an error naming   *)
(* the path, writes nothing and leaves the document as it was; a later     *)
(* printXML on a writable path holds every entry registered before.        *)
(***************************************************************************)
DataTypeLine(s) == "\t<data_type name=\"" \o s \o "\">"

Lines(fileName) == {fs[fileName][i] : i \in 1..Len(fs[fileName])}

C6_FailedFlushLeavesCatalog ==
    /\ (LastIs("printXML") /\ ~Openable(Last.file))
       => /\ report.msg_type = Last.file
          /\ Last.err \in {"thrown", "reported"}
          /\ fs = before.fs
          /\ doc = before.doc
    /\ \A k \in 1..(Len(log) - 1) :
           (/\ log[k].op = "printXML" /\ ~Openable(log[k].file)
            /\ Last.op = "printXML" /\ Openable(Last.file))
           => \A j \in 1..(k - 1) :
                  log[j].op = "traverse"
                  => DataTypeLine(log[j].ret.str) \in Lines(Last.file)

\* A registration, a flush that fails, then a flush that succeeds.
C6_Witness ==
    /\ Len(log) = 3
    /\ log[1].op = "traverse" /\ log[1].T = VectorOfCharDouble
    /\ log[2].op = "printXML" /\ log[2].file = "/no/such/dir/types.xml"
    /\ log[2].err = "thrown"
    /\ log[3].op = "printXML" /\ log[3].file = "types.xml"
    /\ report.msg_type = "/no/such/dir/types.xml"
    /\ fs["/no/such/dir/types.xml"] = <<>>
    /\ "\t<data_type name=\"St6vectorISt5tupleIJcdEESaISt5tupleIJcdEEEE\">"
           \in Lines("types.xml")

(***************************************************************************)
(* C7.  printXML does not modify the document: two calls in a row write    *)
(* the same file, and with nothing ever registered the file is the         *)
(* preamble followed by the childless root element alone.                  *)
(***************************************************************************)
C7_FlushIsReadOnly ==
    /\ LastIs("printXML") => doc = before.doc
    /\ (/\ Len(log) >= 2 /\ Last.op = "printXML"
        /\ log[Len(log) - 1].op = "printXML"
        /\ Openable(Last.file) /\ log[Len(log) - 1].file = Last.file)
       => fs[Last.file] = before.fs[Last.file]
    /\ (/\ LastIs("printXML") /\ Openable(Last.file)
        /\ \A k \in 1..Len(log) : log[k].op # "traverse")
       => fs[Last.file] = <<"<?xml version=\"1.0\" ?>",
                            "<!-- Automatically generated by ForSyDe -->",
                            "<forsyde_types/>">>

\* A registration and then two flushes of the same, non-empty document.
C7_Witness ==
    /\ Len(log) = 3
    /\ log[1].op = "traverse" /\ log[1].T = Prim("int")
    /\ log[2].op = "printXML" /\ log[2].file = "types.xml"
    /\ log[3].op = "printXML" /\ log[3].file = "types.xml"
    /\ fs["types.xml"] = before.fs["types.xml"]
    /\ fs["types.xml"] =
           <<"<?xml version=\"1.0\" ?>",
             "<!-- Automatically generated by ForSyDe -->",
             "<forsyde_types>",
             "\t<data_type name=\"int\">",
             "\t\t<primitive name=\"int\" size=\"4\"/>",
             "\t</data_type>",
             "</forsyde_types>">>

(***************************************************************************)
(* C8.  Between registrations every entry obeys the schema: a data_type    *)
(* has a name and exactly one descriptor; a vector has a size and exactly  *)
(* one child; a tuple has one or more children and no size; a primitive    *)
(* has name and size and no children.  A vector of the tuple (char,        *)
(* double) is a vector node over a tuple node over the primitives char,    *)
(* double in that order.                                                   *)
(***************************************************************************)
C8_DocumentObeysSchema ==
    /\ \A i \in 1..Len(Entries) : EntryComplete(Entries[i])
    /\ \A k \in 1..Len(log) :
           (log[k].op = "traverse" /\ log[k].T = VectorOfCharDouble)
           => EntryFor(VectorOfCharDouble).children =
                  <<[tag |-> "vector",
                     attrs |-> <<Attr("size", "24", -1)>>,
                     children |-> <<
                       [tag |-> "tuple", attrs |-> <<>>,
                        children |-> <<
                          [tag |-> "primitive",
                           attrs |-> <<Attr("name", "char", 0),
                                       Attr("size", "1", -1)>>,
                           children |-> <<>>],
                          [tag |-> "primitive",
                           attrs |-> <<Attr("name", "double", 0),
                                       Attr("size", "8", -1)>>,
                           children |-> <<>>]>>]>>]>>

\* The vector of a tuple and the tuple of two vectors are both registered.
C8_Witness ==
    /\ Len(log) = 2
    /\ log[1].T = VectorOfCharDouble
    /\ log[2].T = Tuple(<<Vector(Other("ChanuleSamples")),
                          Vector(Prim("float"))>>)
    /\ Len(Entries) = 2
    /\ Entries[1].children[1].children[1].tag = "tuple"
    /\ Entries[2].children[1].children[2].tag = "vector"

(***************************************************************************)
(* C9.  As claimed: at every step of a registration every entry under the  *)
(* root has a name attribute and a complete descriptor.                    *)
(***************************************************************************)
C9_EveryAttachedEntryComplete ==
    \A i \in 1..Len(Entries) : EntryComplete(Entries[i])

(***************************************************************************)
(* C9, amended.  The new entry is attached under the root when it is       *)
(* created, before its name is set and before its descriptor is built; the *)
(* entries that lack a name or a complete descriptor are exactly those of  *)
(* registrations still in progress, and every other entry has both.        *)
(***************************************************************************)
UnderConstruction(i) ==
    \E t \in Registrants : pc[t] \in {"add_name", "build"} /\ tnode[t] = <<i>>

C9_OnlyEntryUnderConstructionIncomplete ==
    /\ \A t \in Registrants :
           pc[t] = "add_name"
           => /\ tnode[t] \in {<<i>> : i \in 1..Len(Entries)}
              /\ NodeAt(doc, tnode[t]) = Element("data_type")
    /\ \A t \in Registrants :
           pc[t] = "build"
           => NameOf(NodeAt(doc, tnode[t])) = get_type_name(arg[t])
    /\ \A i \in 1..Len(Entries) :
           ~UnderConstruction(i) => EntryComplete(Entries[i])

\* One complete entry, and a second one attached but still bare.
C9_Witness ==
    /\ serialized
    /\ Len(Entries) = 2
    /\ EntryComplete(Entries[1])
    /\ \E t \in Registrants : pc[t] = "add_name" /\ tnode[t] = <<2>>
    /\ NameOf(Entries[2]) = NoAttr

(***************************************************************************)
(* C10.  traverse<T>() takes no lock.  When the caller runs registrations  *)
(* one at a time no two entries carry the same name pointer; when two      *)
(* registrants of the same T both finish their scan before either inserts, *)
(* both insert and the document holds two entries of that name.            *)
(***************************************************************************)
C10_SerializedKeepsNamesUnique ==
    serialized
    => \A i, j \in 1..Len(Entries) :
           (i < j /\ NameOf(Entries[i]) # NoAttr)
           => NameOf(Entries[i]) # NameOf(Entries[j])

\* Unserialized: both calls for the same T have returned, two equal entries.
C10_Witness ==
    /\ ~serialized
    /\ \A t \in Registrants : pc[t] = "idle"
    /\ Len(log) = 2
    /\ log[1].T = log[2].T
    /\ log[1].T = VectorOfCharDouble
    /\ Len(Entries) = 2
    /\ Entries[1] = Entries[2]
    /\ EntryComplete(Entries[1])

=============================================================================
